---- MODULE Spec2Model ----
(***************************************************************************)
(* Model of bot/main.py: the text segmenter split_text, the language       *)
(* heuristic detect_language, build_keyboard, the in-memory transcript     *)
(* store `transcriptions` and the voice/audio/button handlers around it.   *)
(*                                                                         *)
(* A Python str is modelled as a sequence of one-character strings.  The   *)
(* Cyrillic letter is written "ya" (the module text is ASCII only).        *)
(***************************************************************************)
EXTENDS Integers, Sequences, FiniteSets, TLC

VARIABLES
    text,           \* argument `text` of the function under check
    max_length,     \* argument `max_length` of split_text
    message_id,     \* argument `message_id` of build_keyboard
    outcome,        \* how the call ended: "none" (not called yet), "returned", "raised"
    parts,          \* the list split_text returned
    lang,           \* the tag detect_language returned
    keyboard,       \* the rows of buttons build_keyboard returned
    pc,             \* "call" before the function has run, "done" after
    transcriptions, \* the dict `transcriptions`: message_id -> text
    tasks,          \* one record per handler invocation: its position and locals
    next_id,        \* per chat, the message_id the transport gives the next status message
    puts,           \* history: every assignment transcriptions[id] = text, in order
    busy            \* the task inside a synchronous provider call, or 0

fnvars == <<text, max_length, message_id, outcome, parts, lang, keyboard, pc>>
botvars == <<transcriptions, tasks, next_id, puts, busy>>
vars == <<text, max_length, message_id, outcome, parts, lang, keyboard, pc,
          transcriptions, tasks, next_id, puts, busy>>

----------------------------------------------------------------------------
(* Bounds of the model *)

MaxLen == 6        \* longest text enumerated character by character
MaxBudget == 4     \* largest max_length tried on those texts
MaxRun == 71       \* longest run of one letter in the texts given to detect_language
MaxWords == 30     \* most words of one script in the texts given to build_keyboard
MaxMessageId == 11 \* largest message_id given to build_keyboard
NumChats == 2      \* chats the events come from
MaxButtonId == 2   \* largest message_id a pressed button carries
MAX_MESSAGE_LENGTH == 20  \* line 35 sets 4000; scaled down with the texts of the handlers

----------------------------------------------------------------------------
(* Characters and the str methods the code uses *)

SP == " "
NL == "\n"
Whitespace == {SP, NL}
Terminators == {".", "!", "?"}
SplitAlphabet == {"a", ".", SP, NL}
LatinLetters == {"a"}       \* stands for the class [a-zA-Z]
CyrillicLetters == {"ya"}   \* stands for the class [\u0430-\u044f\u0410-\u042f\u0451\u0401]
DetectAlphabet == LatinLetters \cup CyrillicLetters \cup {SP}

IsSpace(c) == c \in Whitespace

Min(S) == CHOOSE x \in S : \A y \in S : x <= y
Max(S) == CHOOSE x \in S : \A y \in S : x >= y

AllStrings(alphabet, n) == UNION {[1..k -> alphabet] : k \in 0..n}

\* mutant: the text is taken as it is
StripNothing(s) == s

\* str.strip(): drop leading and trailing whitespace
Strip(s) ==
    LET idx == {i \in 1..Len(s) : ~IsSpace(s[i])}
    IN  IF idx = {} THEN <<>> ELSE SubSeq(s, Min(idx), Max(idx))

\* str.split(): the maximal runs of non-whitespace, in order
RECURSIVE Words(_)
Words(s) ==
    LET idx == {i \in 1..Len(s) : ~IsSpace(s[i])}
    IN  IF idx = {} THEN <<>>
        ELSE LET b == Min(idx)
                 e == Min({k \in b..Len(s) : k = Len(s) \/ IsSpace(s[k + 1])})
             IN  <<SubSeq(s, b, e)>> \o Words(SubSeq(s, e + 1, Len(s)))

\* text.split('\n\n'): cut at each leftmost, non-overlapping "\n\n"
RECURSIVE SplitParagraphs(_)
SplitParagraphs(s) ==
    LET hits == {i \in 1..(Len(s) - 1) : s[i] = NL /\ s[i + 1] = NL}
    IN  IF hits = {} THEN <<s>>
        ELSE LET i == Min(hits)
             IN  <<SubSeq(s, 1, i - 1)>> \o SplitParagraphs(SubSeq(s, i + 2, Len(s)))

\* re.split(r'(?<=[.!?])\s+', paragraph): cut at each maximal whitespace run
\* that directly follows a terminator
RECURSIVE SplitSentences(_)
SplitSentences(s) ==
    LET hits == {i \in 2..Len(s) : s[i - 1] \in Terminators /\ IsSpace(s[i])}
    IN  IF hits = {} THEN <<s>>
        ELSE LET i == Min(hits)
                 j == Min({k \in i..Len(s) : k = Len(s) \/ ~IsSpace(s[k + 1])})
             IN  <<SubSeq(s, 1, i - 1)>> \o SplitSentences(SubSeq(s, j + 1, Len(s)))

\* callback.data.split(":"): cut at every occurrence of the one-character sep
RECURSIVE SplitOn(_, _)
SplitOn(s, sep) ==
    LET hits == {i \in 1..Len(s) : s[i] = sep}
    IN  IF hits = {} THEN <<s>>
        ELSE LET i == Min(hits)
             IN  <<SubSeq(s, 1, i - 1)>> \o SplitOn(SubSeq(s, i + 1, Len(s)), sep)

----------------------------------------------------------------------------
(* split_text.  st is the pair of locals [parts, current_part]. *)

\* lines 68-69, 73-74, 78-79 (and 57-58 with next = "")
Flush(st, next) ==
    [parts |-> Append(st.parts, Strip(st.current_part)), current_part |-> next]

\* mutant: the separator is left out when a piece is added to the buffer
JoinNoSeparator(st, sep, piece) ==
    [parts |-> st.parts, current_part |-> st.current_part \o piece]

\* lines 71, 76, 81
Join(st, sep, piece) ==
    [parts |-> st.parts,
     current_part |-> IF st.current_part # <<>>
                      THEN st.current_part \o sep \o piece
                      ELSE piece]

\* mutant: a word is always appended to the buffer, never starting a new part
WordStepNoFlush(st, word, m) == Join(st, <<SP>>, word)

\* mutant: the word that overflows the buffer is dropped
WordStepDrop(st, word, m) ==
    IF Len(st.current_part) + Len(word) + 1 > m
    THEN Flush(st, <<>>)
    ELSE Join(st, <<SP>>, word)

\* lines 67-71
WordStep(st, word, m) ==
    IF Len(st.current_part) + Len(word) + 1 > m
    THEN Flush(st, word)
    ELSE Join(st, <<SP>>, word)

\* lines 66-71: for word in words
RECURSIVE WordLoop(_, _, _, _)
WordLoop(st, words, i, m) ==
    IF i > Len(words) THEN st
    ELSE WordLoop(WordStep(st, words[i], m), words, i + 1, m)

\* lines 63-76
SentenceStep(st, sentence, m) ==
    IF Len(sentence) > m
    THEN WordLoop(st, Words(sentence), 1, m)
    ELSE IF Len(st.current_part) + Len(sentence) + 1 > m
         THEN Flush(st, sentence)
         ELSE Join(st, <<SP>>, sentence)

\* lines 62-76: for sentence in sentences
RECURSIVE SentenceLoop(_, _, _, _)
SentenceLoop(st, sentences, i, m) ==
    IF i > Len(sentences) THEN st
    ELSE SentenceLoop(SentenceStep(st, sentences[i], m), sentences, i + 1, m)

\* lines 54-81
ParagraphStep(st, paragraph, m) ==
    IF Len(paragraph) > m
    THEN LET st1 == IF st.current_part # <<>> THEN Flush(st, <<>>) ELSE st
         IN  SentenceLoop(st1, SplitSentences(paragraph), 1, m)
    ELSE IF Len(st.current_part) + Len(paragraph) + 2 > m
         THEN Flush(st, paragraph)
         ELSE Join(st, <<NL, NL>>, paragraph)

\* lines 52-81: for paragraph in paragraphs
RECURSIVE ParagraphLoop(_, _, _, _)
ParagraphLoop(st, paragraphs, i, m) ==
    IF i > Len(paragraphs) THEN st
    ELSE ParagraphLoop(ParagraphStep(st, paragraphs[i], m), paragraphs, i + 1, m)

\* mutant: the short-text test is off by one
ShortTextStrict(s, m) == Len(s) < m

\* line 43
ShortText(s, m) == Len(s) <= m

\* lines 38-86
split_text(s, m) ==
    IF ShortText(s, m) THEN <<s>>
    ELSE LET st == ParagraphLoop([parts |-> <<>>, current_part |-> <<>>],
                                 SplitParagraphs(s), 1, m)
         IN  IF Strip(st.current_part) # <<>>
             THEN Append(st.parts, Strip(st.current_part))
             ELSE st.parts

----------------------------------------------------------------------------
(* Initial values shared by the specifications *)

\* two handler invocations, which may run interleaved
Tasks == {1, 2}
Chats == 1..NumChats

\* no function has been called yet
FnNotCalled ==
    /\ outcome = "none"
    /\ parts = <<>>
    /\ lang = "none"
    /\ keyboard = <<>>
    /\ pc = "call"

\* a task's history fields: calls lists the provider calls it started,
\* provider says how its provider call ended, sent lists what it sent
IdleTask ==
    [pc |-> "idle", kind |-> "none", chat |-> 0, data |-> <<>>, sub |-> "none",
     status_id |-> 0, text |-> <<>>, result |-> <<>>, parts |-> <<>>, i |-> 0,
     calls |-> <<>>, provider |-> "none", sent |-> <<>>]

\* line 32: the store is empty and no handler runs right after start-up
BotIdle ==
    /\ transcriptions = <<>>
    /\ tasks = [t \in Tasks |-> IdleTask]
    /\ next_id = [c \in Chats |-> 1]
    /\ puts = <<>>
    /\ busy = 0

----------------------------------------------------------------------------
(* Specification SpecSplit: split_text on every text of at most MaxLen      *)
(* characters over SplitAlphabet and every budget in -1..MaxBudget.         *)

SplitTexts == AllStrings(SplitAlphabet, MaxLen)
Budgets == (-1)..MaxBudget

InitSplit ==
    /\ text \in SplitTexts
    /\ max_length \in Budgets
    /\ message_id = 0
    /\ FnNotCalled
    /\ BotIdle

\* The call split_text(text, max_length).  The function has no raise
\* statement and every operation in it is total on str and int, so the call
\* always ends by returning.
CallSplitText ==
    /\ pc = "call"
    /\ parts' = split_text(text, max_length)
    /\ outcome' = "returned"
    /\ pc' = "done"
    /\ UNCHANGED <<text, max_length, message_id, lang, keyboard, botvars>>

NextSplit == CallSplitText

SpecSplit == InitSplit /\ [][NextSplit]_vars

----------------------------------------------------------------------------
(* detect_language *)

\* len(re.findall(<class>, s)) for a one-character class
CountIn(s, class) == Cardinality({i \in 1..Len(s) : s[i] \in class})

\* mutant: the threshold test is strict
RatioAtLeastThresholdStrict(cyrillic, letters) == 10 * cyrillic > 3 * letters

\* line 106: cyrillic / letters >= 0.3 on IEEE doubles, for letters >= 1.
\* The quotient is the double nearest cyrillic/letters and 0.3 is the double
\* nearest 3/10, which lies 1.1e-17 below it.  Rounding is monotone, so
\* 10*cyrillic >= 3*letters gives True; and a quotient below 3/10 is below
\* it by at least 1/(10*letters), more than the 4e-17 that rounding could
\* make up, for every text of fewer than 2^50 letters.  The comparison is
\* therefore the exact integer one on every text a process can hold.
RatioAtLeastThreshold(cyrillic, letters) == 10 * cyrillic >= 3 * letters

\* mutant: a text without letters is tagged 'en'
DefaultLanguageEn == "en"

\* line 100
DefaultLanguage == "ru"

\* lines 89-106
detect_language(s) ==
    LET letters == CountIn(s, LatinLetters \cup CyrillicLetters)
        cyrillic == CountIn(s, CyrillicLetters)
    IN  IF letters = 0 THEN DefaultLanguage
        ELSE IF RatioAtLeastThreshold(cyrillic, letters) THEN "ru" ELSE "en"

Run(c, n) == [i \in 1..n |-> c]

\* every short text over DetectAlphabet, and i Latin letters, a space, j Cyrillic letters
DetectTexts ==
    AllStrings(DetectAlphabet, MaxLen)
        \cup {Run("a", i) \o <<SP>> \o Run("ya", j) : i \in 0..MaxRun, j \in 0..MaxRun}

InitDetect ==
    /\ text \in DetectTexts
    /\ max_length = 0
    /\ message_id = 0
    /\ FnNotCalled
    /\ BotIdle

\* The call detect_language(text)
CallDetectLanguage ==
    /\ pc = "call"
    /\ lang' = detect_language(text)
    /\ outcome' = "returned"
    /\ pc' = "done"
    /\ UNCHANGED <<text, max_length, message_id, parts, keyboard, botvars>>

NextDetect == CallDetectLanguage

SpecDetect == InitDetect /\ [][NextDetect]_vars

----------------------------------------------------------------------------
(* build_keyboard *)

SUMMARY_MIN_WORDS == 20

DigitChars == <<"0", "1", "2", "3", "4", "5", "6", "7", "8", "9">>

\* str(n) of an f-string field, n >= 0
RECURSIVE FormatInt(_)
FormatInt(n) ==
    IF n < 10 THEN <<DigitChars[n + 1]>>
    ELSE FormatInt(n \div 10) \o <<DigitChars[(n % 10) + 1]>>

SummaryPrefix == <<"s", "u", "m", "m", "a", "r", "y">>
TranslatePrefix == <<"t", "r", "a", "n", "s", "l", "a", "t", "e">>
LangChars(l) == IF l = "ru" THEN <<"r", "u">> ELSE <<"e", "n">>

\* line 161
SummaryButton(mid) ==
    [text |-> "Kratkij pereskaz",
     callback_data |-> SummaryPrefix \o <<":">> \o FormatInt(mid)]

\* mutant: the translation goes into the detected language
TargetLangSame(l) == l

\* line 154
TargetLang(l) == IF l = "ru" THEN "en" ELSE "ru"

\* lines 153, 163
TranslateButton(l, mid) ==
    [text |-> IF l = "ru" THEN "Perevesti na anglijskij" ELSE "Perevesti na russkij",
     callback_data |-> TranslatePrefix \o <<":">> \o LangChars(TargetLang(l))
                          \o <<":">> \o FormatInt(mid)]

\* mutant: the summary button needs more than the threshold
EnoughWordsStrict(word_count) == word_count > SUMMARY_MIN_WORDS

\* mutant: the threshold is 50 words
EnoughWordsFifty(word_count) == word_count >= 50

\* line 160
EnoughWords(word_count) == word_count >= SUMMARY_MIN_WORDS

\* lines 139-165: the rows of the InlineKeyboardMarkup, one button per row
build_keyboard(s, mid) ==
    LET l == detect_language(s)
        word_count == Len(Words(s))
        buttons == IF EnoughWords(word_count)
                   THEN << <<SummaryButton(mid)>> >>
                   ELSE <<>>
    IN  Append(buttons, <<TranslateButton(l, mid)>>)

\* i Latin words then j Cyrillic words, one letter each, joined by single spaces
RECURSIVE WordsText(_, _)
WordsText(i, j) ==
    IF i + j = 0 THEN <<>>
    ELSE IF i + j = 1 THEN (IF i = 1 THEN <<"a">> ELSE <<"ya">>)
    ELSE IF j > 0 THEN WordsText(i, j - 1) \o <<SP, "ya">>
    ELSE WordsText(i - 1, 0) \o <<SP, "a">>

KeyboardTexts ==
    AllStrings(DetectAlphabet, MaxLen - 2)
        \cup {WordsText(i, j) : i \in 0..MaxWords, j \in 0..MaxWords}

InitKeyboard ==
    /\ text \in KeyboardTexts
    /\ max_length = 0
    /\ message_id \in 1..MaxMessageId
    /\ FnNotCalled
    /\ BotIdle

\* The call build_keyboard(text, message_id)
CallBuildKeyboard ==
    /\ pc = "call"
    /\ keyboard' = build_keyboard(text, message_id)
    /\ outcome' = "returned"
    /\ pc' = "done"
    /\ UNCHANGED <<text, max_length, message_id, parts, lang, botvars>>

NextKeyboard == CallBuildKeyboard

SpecKeyboard == InitKeyboard /\ [][NextKeyboard]_vars

----------------------------------------------------------------------------
(* The handlers.  A task is one invocation of a handler coroutine; it runs   *)
(* alone from one await to the next, so each action below is the code        *)
(* between two awaits.  The groq_client calls are synchronous: from their    *)
(* start to their return (busy # 0) no other task runs.                      *)

\* what transcription.text can be: empty, whitespace only, a short text, a
\* text of 20 words
TranscriptionResults == {<<>>, <<SP>>, <<SP, "a">>, WordsText(SUMMARY_MIN_WORDS, 0)}

\* what response.choices[0].message.content can be: a short text, a long one
GenerationResults == {<<"a">>, WordsText(MaxWords, 0)}

\* callback_data of every button build_keyboard can make for ids 1..MaxButtonId
CallbackData ==
    {SummaryButton(id).callback_data : id \in 1..MaxButtonId}
        \cup {TranslateButton(l, id).callback_data : l \in {"ru", "en"}, id \in 1..MaxButtonId}

\* int(s) for a string of decimal digits
RECURSIVE ParseInt(_)
ParseInt(s) ==
    LET value(c) == CHOOSE d \in 0..9 : DigitChars[d + 1] = c
    IN  IF Len(s) = 1 THEN value(s[1])
        ELSE 10 * ParseInt(SubSeq(s, 1, Len(s) - 1)) + value(s[Len(s)])

\* F.data.startswith(prefix)
StartsWith(s, prefix) == Len(s) >= Len(prefix) /\ SubSeq(s, 1, Len(prefix)) = prefix

\* lines 366, 410: which callback handler the dispatcher runs for the data
CallbackKind(data) ==
    IF StartsWith(data, SummaryPrefix \o <<":">>) THEN "summary" ELSE "translate"

\* lines 379, 422-424: the message_id field of the callback data
CallbackMessageId(kind, data) ==
    IF kind = "summary" THEN ParseInt(SplitOn(data, ":")[2])
    ELSE ParseInt(SplitOn(data, ":")[3])

\* mutant: the assignment is lost
PutDropped(d, k, v) == d

\* lines 246, 323: transcriptions[k] = v
Put(d, k, v) == [x \in DOMAIN d \cup {k} |-> IF x = k THEN v ELSE d[x]]

\* transcriptions.get(k): <<v>> when k is a key, <<>> for None
Get(d, k) == IF k \in DOMAIN d THEN <<d[k]>> ELSE <<>>

\* `not text` for what get returned: None or the empty string
Falsy(opt) == opt = <<>> \/ opt[1] = <<>>

\* one outbound operation on the transport; id is the message_id of the
\* status message it makes or edits, and 0 for every other message: the code
\* reads no other message's id
Msg(op, content, id, part, total, body, markup) ==
    [op |-> op, what |-> content, id |-> id, part |-> part, total |-> total,
     body |-> body, keyboard |-> markup]

SendOutcomes == {"raise", "ok"}

\* mutant: the parts are numbered from 0
PartMsgZeroBased(op, content, segments, k, markup) ==
    Msg(op, content, 0, k - 1, Len(segments), segments[k], markup)

\* lines 262, 270, 276, 401, 447: the message for part i of len(parts), with
\* the label i/len(parts) and the part as its body
PartMsg(op, content, segments, k, markup) ==
    Msg(op, content, 0, k, Len(segments), segments[k], markup)

Update(t, r) == tasks' = [tasks EXCEPT ![t] = r]

\* a voice or audio message arrives (lines 214-215, 289-290)
ReceiveMedia(t) ==
    /\ busy = 0
    /\ tasks[t].pc = "idle"
    /\ \A u \in Tasks : u < t => tasks[u].pc # "idle"
    /\ \E kind \in {"voice", "audio"}, chat \in Chats :
          Update(t, [tasks[t] EXCEPT !.pc = "check_subscription",
                                     !.kind = kind, !.chat = chat])
    /\ UNCHANGED <<fnvars, transcriptions, next_id, puts, busy>>

\* a button is pressed (lines 366-367, 410-411)
ReceiveButton(t) ==
    /\ busy = 0
    /\ tasks[t].pc = "idle"
    /\ \A u \in Tasks : u < t => tasks[u].pc # "idle"
    /\ \E data \in CallbackData :
          Update(t, [tasks[t] EXCEPT !.pc = "callback_answer",
                                     !.kind = CallbackKind(data),
                                     !.data = data])
    /\ UNCHANGED <<fnvars, transcriptions, next_id, puts, busy>>

\* lines 109-122: the membership status decides; a raise counts as no
check_subscription(status) == status \in {"creator", "administrator", "member"}

\* lines 218, 293: await check_subscription(...)
CheckSubscription(t) ==
    /\ busy = 0
    /\ tasks[t].pc = "check_subscription"
    /\ \E status \in {"member", "left", "raise"} :
          Update(t, [tasks[t] EXCEPT
              !.sub = IF check_subscription(status) THEN "passed" ELSE "denied",
              !.pc = IF check_subscription(status)
                     THEN "send_status" ELSE "send_subscription_required"])
    /\ UNCHANGED <<fnvars, transcriptions, next_id, puts, busy>>

\* lines 219-220, 125-136: await send_subscription_required(message); return
SendSubscriptionRequired(t) ==
    /\ busy = 0
    /\ tasks[t].pc = "send_subscription_required"
    /\ \E o \in SendOutcomes :
          IF o = "ok"
          THEN Update(t, [tasks[t] EXCEPT
                   !.pc = "done",
                   !.sent = Append(@, Msg("answer", "subscription_required",
                                          0, 0, 0, <<>>, <<>>))])
          ELSE Update(t, [tasks[t] EXCEPT !.pc = "crashed"])
    /\ UNCHANGED <<fnvars, transcriptions, next_id, puts, busy>>

\* lines 223, 297: status_msg = await message.answer(...), outside the try.
\* The transport numbers the messages of each chat on their own: a message_id
\* is unique inside its chat and may repeat in another chat.
SendStatus(t) ==
    /\ busy = 0
    /\ tasks[t].pc = "send_status"
    /\ \E o \in SendOutcomes :
          IF o = "ok"
          THEN /\ Update(t, [tasks[t] EXCEPT
                      !.pc = "download",
                      !.status_id = next_id[tasks[t].chat],
                      !.sent = Append(@, Msg("answer", "status",
                                             next_id[tasks[t].chat], 0, 0, <<>>, <<>>))])
               /\ next_id' = [next_id EXCEPT ![tasks[t].chat] = @ + 1]
          ELSE /\ Update(t, [tasks[t] EXCEPT !.pc = "crashed"])
               /\ UNCHANGED next_id
    /\ UNCHANGED <<fnvars, transcriptions, puts, busy>>

\* lines 227-233, 300-311: await bot.get_file, await bot.download_file
Download(t) ==
    /\ busy = 0
    /\ tasks[t].pc = "download"
    /\ \E o \in SendOutcomes :
          Update(t, [tasks[t] EXCEPT
              !.pc = IF o = "ok" THEN "transcribe" ELSE "report_error"])
    /\ UNCHANGED <<fnvars, transcriptions, next_id, puts, busy>>

\* lines 237-241, 314-318: the synchronous call to the transcription provider starts
TranscribeBegin(t) ==
    /\ busy = 0
    /\ tasks[t].pc = "transcribe"
    /\ Update(t, [tasks[t] EXCEPT !.pc = "transcribing",
                                  !.calls = Append(@, "transcribe")])
    /\ busy' = t
    /\ UNCHANGED <<fnvars, transcriptions, next_id, puts>>

\* lines 238-249, 315-326: the provider raises, or returns and the text is
\* stripped, stored and split
TranscribeEnd(t) ==
    /\ busy = t
    /\ tasks[t].pc = "transcribing"
    /\ busy' = 0
    /\ \/ /\ Update(t, [tasks[t] EXCEPT !.pc = "report_error",
                                        !.provider = "failed"])
          /\ UNCHANGED <<fnvars, transcriptions, puts>>
       \/ \E result \in TranscriptionResults :
             LET stripped == Strip(result)
             IN  IF stripped # <<>>
                 THEN /\ transcriptions' = Put(transcriptions, tasks[t].status_id, stripped)
                      /\ puts' = Append(puts, [id |-> tasks[t].status_id,
                                               text |-> stripped, task |-> t])
                      /\ Update(t, [tasks[t] EXCEPT
                             !.pc = "send_first",
                             !.provider = "returned",
                             !.result = result,
                             !.text = stripped,
                             !.parts = split_text(stripped, MAX_MESSAGE_LENGTH),
                             !.i = 1])
                 ELSE /\ Update(t, [tasks[t] EXCEPT !.pc = "send_no_speech",
                                                   !.provider = "returned",
                                                   !.result = result])
                      /\ UNCHANGED <<fnvars, transcriptions, puts>>
    /\ UNCHANGED <<fnvars, next_id>>

\* lines 251-264, 328-341: await status_msg.edit_text(...), the whole text with
\* the keyboard or part 1 without it
SendFirst(t) ==
    /\ busy = 0
    /\ tasks[t].pc = "send_first"
    /\ \E o \in SendOutcomes :
          LET r == tasks[t]
              n == Len(r.parts)
              m == IF n = 1
                   THEN Msg("edit_text", "transcript", r.status_id, 0, 0, r.text,
                            build_keyboard(r.text, r.status_id))
                   ELSE [PartMsg("edit_text", "transcript", r.parts, 1, <<>>)
                             EXCEPT !.id = r.status_id]
          IN  IF o = "ok"
              THEN Update(t, [r EXCEPT !.pc = IF n = 1 THEN "done" ELSE "send_part",
                                       !.i = 2,
                                       !.sent = Append(@, m)])
              ELSE Update(t, [r EXCEPT !.pc = "report_error"])
    /\ UNCHANGED <<fnvars, transcriptions, next_id, puts, busy>>

\* lines 265-278, 342-355: await message.answer(part i), the last with the keyboard
SendPart(t) ==
    /\ busy = 0
    /\ tasks[t].pc = "send_part"
    /\ \E o \in SendOutcomes :
          LET r == tasks[t]
              n == Len(r.parts)
              kb == IF r.i = n THEN build_keyboard(r.text, r.status_id) ELSE <<>>
              m == PartMsg("answer", "transcript", r.parts, r.i, kb)
          IN  IF o = "ok"
              THEN Update(t, [r EXCEPT !.pc = IF r.i = n THEN "done" ELSE "send_part",
                                       !.i = r.i + 1,
                                       !.sent = Append(@, m)])
              ELSE Update(t, [r EXCEPT !.pc = "report_error"])
    /\ UNCHANGED <<fnvars, transcriptions, next_id, puts, busy>>

\* lines 280, 357: await status_msg.edit_text("no speech recognized")
SendNoSpeech(t) ==
    /\ busy = 0
    /\ tasks[t].pc = "send_no_speech"
    /\ \E o \in SendOutcomes :
          LET r == tasks[t]
          IN  IF o = "ok"
              THEN Update(t, [r EXCEPT
                      !.pc = "done",
                      !.sent = Append(@, Msg("edit_text", "no_speech", r.status_id,
                                             0, 0, <<>>, <<>>))])
              ELSE Update(t, [r EXCEPT !.pc = "report_error"])
    /\ UNCHANGED <<fnvars, transcriptions, next_id, puts, busy>>

\* mutant: the except clause only logs the failure
ReportErrorSilent(t) ==
    /\ busy = 0
    /\ tasks[t].pc = "report_error"
    /\ Update(t, [tasks[t] EXCEPT !.pc = "done"])
    /\ UNCHANGED <<fnvars, transcriptions, next_id, puts, busy>>

\* lines 284-286, 361-363, 405-407, 451-453: the except clause tells the user
ReportError(t) ==
    /\ busy = 0
    /\ tasks[t].pc = "report_error"
    /\ \E o \in SendOutcomes :
          LET r == tasks[t]
              media == r.kind \in {"voice", "audio"}
          IN  IF o = "ok"
              THEN Update(t, [r EXCEPT
                      !.pc = "done",
                      !.sent = Append(@,
                          IF media
                          THEN Msg("edit_text", "error", r.status_id, 0, 0, <<>>, <<>>)
                          ELSE Msg("answer", "error", 0, 0, 0, <<>>, <<>>))])
              ELSE Update(t, [r EXCEPT !.pc = "crashed"])
    /\ UNCHANGED <<fnvars, transcriptions, next_id, puts, busy>>

\* lines 375, 418: await callback.answer(...), outside the try
CallbackAnswer(t) ==
    /\ busy = 0
    /\ tasks[t].pc = "callback_answer"
    /\ \E o \in SendOutcomes :
          LET r == tasks[t]
          IN  IF o = "ok"
              THEN Update(t, [r EXCEPT
                      !.pc = "lookup",
                      !.sent = Append(@, Msg("callback_answer", "ack", 0, 0, 0, <<>>, <<>>))])
              ELSE Update(t, [r EXCEPT !.pc = "crashed"])
    /\ UNCHANGED <<fnvars, transcriptions, next_id, puts, busy>>

\* mutant: the provider is called whether or not the store has the text
LookupNoReturn(t) ==
    /\ busy = 0
    /\ tasks[t].pc = "lookup"
    /\ LET r == tasks[t]
           got == Get(transcriptions, CallbackMessageId(r.kind, r.data))
       IN  /\ Update(t, [r EXCEPT
                  !.pc = "generating",
                  !.text = IF got = <<>> THEN <<>> ELSE got[1],
                  !.calls = Append(@, IF r.kind = "summary"
                                      THEN "summarize" ELSE "translate")])
           /\ busy' = t
    /\ UNCHANGED <<fnvars, transcriptions, next_id, puts>>

\* lines 379-388, 422-433: parse the data, read the store; without a text go
\* on to the not-found notice, with one start the synchronous provider call
Lookup(t) ==
    /\ busy = 0
    /\ tasks[t].pc = "lookup"
    /\ LET r == tasks[t]
           got == Get(transcriptions, CallbackMessageId(r.kind, r.data))
       IN  IF Falsy(got)
           THEN /\ Update(t, [r EXCEPT !.pc = "send_not_found"])
                /\ UNCHANGED busy
           ELSE /\ Update(t, [r EXCEPT
                       !.pc = "generating",
                       !.text = got[1],
                       !.calls = Append(@, IF r.kind = "summary"
                                           THEN "summarize" ELSE "translate")])
                /\ busy' = t
    /\ UNCHANGED <<fnvars, transcriptions, next_id, puts>>

\* lines 384-385, 429-430: await callback.message.answer("text not found"); return
SendNotFound(t) ==
    /\ busy = 0
    /\ tasks[t].pc = "send_not_found"
    /\ \E o \in SendOutcomes :
          LET r == tasks[t]
          IN  IF o = "ok"
              THEN Update(t, [r EXCEPT
                      !.pc = "done",
                      !.sent = Append(@, Msg("answer", "not_found", 0, 0, 0, <<>>, <<>>))])
              ELSE Update(t, [r EXCEPT !.pc = "report_error"])
    /\ UNCHANGED <<fnvars, transcriptions, next_id, puts, busy>>

\* mutant: the provider output is kept in the store under the button's id
GenerateEndStores(t) ==
    /\ busy = t
    /\ tasks[t].pc = "generating"
    /\ busy' = 0
    /\ \/ /\ Update(t, [tasks[t] EXCEPT !.pc = "report_error", !.provider = "failed"])
          /\ UNCHANGED transcriptions
       \/ \E result \in GenerationResults :
             /\ Update(t, [tasks[t] EXCEPT
                    !.pc = "send_result",
                    !.provider = "returned",
                    !.result = result,
                    !.parts = split_text(result, MAX_MESSAGE_LENGTH),
                    !.i = 1])
             /\ transcriptions' =
                    Put(transcriptions,
                        CallbackMessageId(tasks[t].kind, tasks[t].data), result)
    /\ UNCHANGED <<fnvars, next_id, puts>>

\* lines 388-391, 433-436: the provider raises, or returns and the output is split
GenerateEnd(t) ==
    /\ busy = t
    /\ tasks[t].pc = "generating"
    /\ busy' = 0
    /\ \/ Update(t, [tasks[t] EXCEPT !.pc = "report_error", !.provider = "failed"])
       \/ \E result \in GenerationResults :
             Update(t, [tasks[t] EXCEPT
                 !.pc = "send_result",
                 !.provider = "returned",
                 !.result = result,
                 !.parts = split_text(result, MAX_MESSAGE_LENGTH),
                 !.i = 1])
    /\ UNCHANGED <<fnvars, transcriptions, next_id, puts>>

\* lines 393-403, 439-449: await callback.message.answer(part i)
SendResultPart(t) ==
    /\ busy = 0
    /\ tasks[t].pc = "send_result"
    /\ \E o \in SendOutcomes :
          LET r == tasks[t]
              n == Len(r.parts)
              what == IF r.kind = "summary" THEN "summary" ELSE "translation"
              m == IF n = 1
                   THEN Msg("answer", what, 0, 0, 0, r.parts[r.i], <<>>)
                   ELSE PartMsg("answer", what, r.parts, r.i, <<>>)
          IN  IF o = "ok"
              THEN Update(t, [r EXCEPT !.pc = IF r.i = n THEN "done" ELSE "send_result",
                                       !.i = r.i + 1,
                                       !.sent = Append(@, m)])
              ELSE Update(t, [r EXCEPT !.pc = "report_error"])
    /\ UNCHANGED <<fnvars, transcriptions, next_id, puts, busy>>

Init ==
    /\ text = <<>>
    /\ max_length = 0
    /\ message_id = 0
    /\ FnNotCalled
    /\ BotIdle

Next ==
    \/ \E t \in Tasks : ReceiveMedia(t)
    \/ \E t \in Tasks : ReceiveButton(t)
    \/ \E t \in Tasks : CheckSubscription(t)
    \/ \E t \in Tasks : SendSubscriptionRequired(t)
    \/ \E t \in Tasks : SendStatus(t)
    \/ \E t \in Tasks : Download(t)
    \/ \E t \in Tasks : TranscribeBegin(t)
    \/ \E t \in Tasks : TranscribeEnd(t)
    \/ \E t \in Tasks : SendFirst(t)
    \/ \E t \in Tasks : SendPart(t)
    \/ \E t \in Tasks : SendNoSpeech(t)
    \/ \E t \in Tasks : ReportError(t)
    \/ \E t \in Tasks : CallbackAnswer(t)
    \/ \E t \in Tasks : Lookup(t)
    \/ \E t \in Tasks : SendNotFound(t)
    \/ \E t \in Tasks : GenerateEnd(t)
    \/ \E t \in Tasks : SendResultPart(t)

Spec == Init /\ [][Next]_vars

----------------------------------------------------------------------------
(* Properties of split_text, checked under SpecSplit *)

Returned == pc = "done" /\ outcome = "returned"

\* the whitespace-delimited tokens read from the segments, in segment order
RECURSIVE TokensOfSegments(_)
TokensOfSegments(segs) ==
    IF segs = <<>> THEN <<>>
    ELSE Words(Head(segs)) \o TokensOfSegments(Tail(segs))

IsToken(s) == s # <<>> /\ \A i \in 1..Len(s) : ~IsSpace(s[i])

Range(f) == {f[i] : i \in DOMAIN f}

C2_NonPositiveBudgetRaises ==
    (pc = "done" /\ max_length <= 0) => outcome = "raised"

C4_TokensPreserved ==
    (Returned /\ max_length > 0) => TokensOfSegments(parts) = Words(text)

\* C4 witness: a returned call with m > 0 that cut a text of at least three
\* tokens into at least two segments.
C4_Witness ==
    /\ Returned /\ max_length > 0
    /\ Len(parts) >= 2
    /\ Len(Words(text)) >= 3

\* C5: for every text with len(text) <= max_length the call returns exactly
\* [text]; the empty text gives [""].
C5_ShortTextReturnedWhole ==
    (pc = "done" /\ Len(text) <= max_length) =>
        outcome = "returned" /\ parts = <<text>>

\* C5 witness: the call on the empty text returned the single empty segment.
C5_Witness ==
    /\ Returned /\ text = <<>> /\ max_length >= 0
    /\ parts = << <<>> >>

\* the units the segmenter packs, in text order: a paragraph within the
\* budget is one unit, a longer paragraph gives one unit per sentence; n is
\* the number of tokens of the unit, long says it is a sentence over the budget
SentenceUnits(paragraph, m) ==
    LET ss == SplitSentences(paragraph)
    IN  [k \in 1..Len(ss) |-> [long |-> Len(ss[k]) > m, n |-> Len(Words(ss[k]))]]

RECURSIVE UnitsOf(_, _)
UnitsOf(paragraphs, m) ==
    IF paragraphs = <<>> THEN <<>>
    ELSE (IF Len(Head(paragraphs)) > m
          THEN SentenceUnits(Head(paragraphs), m)
          ELSE <<[long |-> FALSE, n |-> Len(Words(Head(paragraphs)))]>>)
         \o UnitsOf(Tail(paragraphs), m)

\* the number of tokens in the first k units
RECURSIVE TokensBefore(_, _)
TokensBefore(units, k) ==
    IF k = 0 THEN 0 ELSE TokensBefore(units, k - 1) + units[k].n

\* the number of tokens in the first k segments
RECURSIVE TokensUpTo(_, _)
TokensUpTo(segs, k) ==
    IF k = 0 THEN 0 ELSE TokensUpTo(segs, k - 1) + Len(Words(segs[k]))

\* segment k holds a token of unit u together with a token from before unit u
Mixes(segs, k, units, u) ==
    LET first == TokensBefore(units, u - 1)
    IN  /\ units[u].n > 0
        /\ TokensUpTo(segs, k - 1) < first
        /\ first < TokensUpTo(segs, k)

\* C18 as stated: when a sentence longer than max_length is reached, the
\* pending buffer is flushed before any word of that sentence is packed, so
\* no segment holds a word of the long sentence together with text from
\* before it.
C18_BufferFlushedBeforeLongSentence ==
    (Returned /\ max_length > 0 /\ Len(text) > max_length) =>
        LET units == UnitsOf(SplitParagraphs(text), max_length)
        IN  \A u \in 1..Len(units) :
                units[u].long =>
                    \A k \in 1..Len(parts) : ~Mixes(parts, k, units, u)

\* C18 case reached: the call has returned on a text with a sentence within
\* the budget followed by a sentence over it.
C18_LongSentenceReached ==
    /\ Returned /\ max_length > 0 /\ Len(text) > max_length
    /\ LET units == UnitsOf(SplitParagraphs(text), max_length)
       IN  /\ Len(units) = 2
           /\ ~units[1].long /\ units[1].n > 0
           /\ units[2].long /\ units[2].n > 1

\* C20 as stated: for every text longer than max_length > 0 with at least
\* one non-whitespace character, no returned segment is the empty string (no
\* flush happens while the pending buffer is empty).
C20_NoEmptySegment ==
    (Returned /\ max_length > 0 /\ Len(text) > max_length /\ Words(text) # <<>>) =>
        \A k \in 1..Len(parts) : parts[k] # <<>>

\* C20 case reached: the call has returned on a text whose first paragraph
\* fills the budget exactly and is followed by another paragraph.
C20_ExactFitReached ==
    /\ Returned /\ max_length > 0 /\ Len(text) > max_length
    /\ LET ps == SplitParagraphs(text)
       IN  /\ Len(ps) = 2
           /\ Len(ps[1]) = max_length /\ IsToken(ps[1])
           /\ IsToken(ps[2])

----------------------------------------------------------------------------
(* Properties of detect_language, checked under SpecDetect *)

PRIMARY == "en"      \* the Latin tag
SECONDARY == "ru"    \* the Cyrillic tag

Letters(s) == CountIn(s, LatinLetters \cup CyrillicLetters)
Cyrillic(s) == CountIn(s, CyrillicLetters)

\* C6: for every text with at least one Latin or Cyrillic letter the tag is
\* SECONDARY exactly when 10 * cyrillic >= 3 * letters, and PRIMARY otherwise.
C6_ThresholdAtThirtyPercent ==
    (Returned /\ Letters(text) >= 1) =>
        /\ lang \in {PRIMARY, SECONDARY}
        /\ lang = SECONDARY <=> 10 * Cyrillic(text) >= 3 * Letters(text)

\* C6 witness: a text with exactly 3 Cyrillic letters among 10 was tagged
\* SECONDARY.
C6_Witness ==
    /\ Returned
    /\ Letters(text) = 10 /\ Cyrillic(text) = 3
    /\ lang = SECONDARY

\* C6 second case reached: a text with 29 Cyrillic letters among 100 was
\* tagged PRIMARY.
C6_TwentyNinePercentReached ==
    /\ Returned
    /\ Letters(text) = 100 /\ Cyrillic(text) = 29
    /\ lang = PRIMARY

HelloWorld == Run("a", 5) \o <<SP>> \o Run("a", 5)
PrivetMir == Run("ya", 6) \o <<SP>> \o Run("ya", 3)

\* C7 as stated: a text with no letters gets the PRIMARY tag, the tag of
\* "Hello world" and not the tag of the all-Cyrillic "Privet mir".
C7_NoLettersIsPrimary ==
    (Returned /\ Letters(text) = 0) =>
        /\ lang = PRIMARY
        /\ lang = detect_language(HelloWorld)
        /\ lang # detect_language(PrivetMir)

\* C7 amended: a text with no letters gets the SECONDARY tag 'ru', the tag of
\* the all-Cyrillic "Privet mir" and not the tag of "Hello world".
C7_NoLettersIsSecondary ==
    (Returned /\ Letters(text) = 0) =>
        /\ lang = SECONDARY
        /\ lang = detect_language(PrivetMir)
        /\ lang # detect_language(HelloWorld)

\* C7 witness: detect_language has returned on the empty text.
C7_Witness == Returned /\ text = <<>> /\ lang # "none"

----------------------------------------------------------------------------
(* Properties of build_keyboard, checked under SpecKeyboard *)

OtherLanguage(l) == IF l = PRIMARY THEN SECONDARY ELSE PRIMARY

\* the buttons of a keyboard, row by row
RECURSIVE Buttons(_)
Buttons(rows) == IF rows = <<>> THEN <<>> ELSE Head(rows) \o Buttons(Tail(rows))

\* the fields of a button's callback_data
Fields(button) == SplitOn(button.callback_data, ":")

\* C10: the keyboard has exactly one translate button, whose target is the
\* language other than detect_language(text), and has the summarize button
\* exactly when the text has at least SUMMARY_MIN_WORDS words.
C10_KeyboardButtons ==
    Returned =>
        LET b == Buttons(keyboard)
            tr == {i \in 1..Len(b) : Fields(b[i])[1] = TranslatePrefix}
            su == {i \in 1..Len(b) : Fields(b[i])[1] = SummaryPrefix}
        IN  /\ Cardinality(tr) = 1
            /\ \A i \in tr :
                  Fields(b[i])[2] = LangChars(OtherLanguage(detect_language(text)))
            /\ Cardinality(su) = (IF Len(Words(text)) >= SUMMARY_MIN_WORDS THEN 1 ELSE 0)
            /\ tr \cup su = 1..Len(b)

\* C10 witness: a keyboard with both buttons was built for a text of exactly
\* SUMMARY_MIN_WORDS words that is tagged PRIMARY.
C10_Witness ==
    /\ Returned
    /\ Len(Words(text)) = SUMMARY_MIN_WORDS
    /\ detect_language(text) = PRIMARY
    /\ Len(keyboard) = 2

\* the keyboard is the translate button with this target and nothing else
OnlyTranslate(rows, target) ==
    LET b == Buttons(rows)
    IN  /\ Len(b) = 1
        /\ Fields(b[1])[1] = TranslatePrefix
        /\ Fields(b[1])[2] = LangChars(target)

\* the keyboard is the summarize button and the translate button with this target
SummaryAndTranslate(rows, target) ==
    LET b == Buttons(rows)
    IN  /\ Len(b) = 2
        /\ Fields(b[1])[1] = SummaryPrefix
        /\ Fields(b[2])[1] = TranslatePrefix
        /\ Fields(b[2])[2] = LangChars(target)

\* C11 as stated: a 30-word transcript in the PRIMARY language gets only the
\* translate-to-SECONDARY button, and a 60-word transcript gets both the
\* summarize and the translate button.
C11_ThirtyWordsOnlyTranslate ==
    Returned =>
        /\ (Len(Words(text)) = 30 /\ detect_language(text) = PRIMARY) =>
               OnlyTranslate(keyboard, SECONDARY)
        /\ Len(Words(text)) = 60 =>
               SummaryAndTranslate(keyboard, OtherLanguage(detect_language(text)))

\* C11 amended: a 30-word transcript in the PRIMARY language gets both the
\* summarize and the translate-to-SECONDARY button, as a 60-word transcript
\* gets both buttons; a PRIMARY transcript of fewer than 20 words gets only
\* the translate-to-SECONDARY button.
C11_ThirtyWordsBothButtons ==
    Returned =>
        /\ (Len(Words(text)) = 30 /\ detect_language(text) = PRIMARY) =>
               SummaryAndTranslate(keyboard, SECONDARY)
        /\ Len(Words(text)) = 60 =>
               SummaryAndTranslate(keyboard, OtherLanguage(detect_language(text)))
        /\ (Len(Words(text)) < 20 /\ detect_language(text) = PRIMARY) =>
               OnlyTranslate(keyboard, SECONDARY)

\* C11 witness: the keyboard was built for a 30-word PRIMARY transcript and
\* has two rows.
C11_Witness ==
    /\ Returned
    /\ Len(Words(text)) = 30
    /\ detect_language(text) = PRIMARY
    /\ Len(keyboard) = 2

\* C11 cases reached: keyboards were built for a 60-word transcript and for
\* a 19-word PRIMARY transcript.
C11_SixtyWordsReached == Returned /\ Len(Words(text)) = 60 /\ Len(keyboard) = 2
C11_NineteenWordsReached ==
    /\ Returned
    /\ Len(Words(text)) = 19 /\ detect_language(text) = PRIMARY
    /\ Len(keyboard) = 1

----------------------------------------------------------------------------
(* Properties of the session store, checked under Spec *)

\* what the history says get(id) must return: <<text>> of the latest
\* assignment to id, <<>> when there was none
LastPut(id) ==
    LET idx == {i \in 1..Len(puts) : puts[i].id = id}
    IN  IF idx = {} THEN <<>> ELSE <<puts[Max(idx)].text>>

\* task t reads the store in this step
Reads(t) == tasks[t].pc = "lookup" /\ tasks'[t].pc # "lookup"

C9_PutNeverOverwrites ==
    \A i, j \in 1..Len(puts) : i < j => puts[i].id # puts[j].id

----------------------------------------------------------------------------
(* Properties of the handlers, checked under Spec *)

IsMedia(r) == r.kind \in {"voice", "audio"}
IsButton(r) == r.kind \in {"summary", "translate"}

\* the messages of a task that carry a transcript, a summary or a translation
Content(r) ==
    SelectSeq(r.sent, LAMBDA m : m.what \in {"transcript", "summary", "translation"})

\* the messages of a task of one kind
Sent(r, what) == SelectSeq(r.sent, LAMBDA m : m.what = what)

\* the text the content messages of a task come from: the transcript in a
\* voice/audio handler, the provider output in a button handler
SourceText(r) == IF IsMedia(r) THEN r.text ELSE r.result

\* the handler returned without entering its except clause
EndedNormally(r) == r.pc = "done" /\ Sent(r, "error") = <<>>

\* C12: whenever a handler has sent a transcript, a summary or a translation,
\* the text went through split_text first; when that gave total > 1 segments,
\* the messages sent so far are the segments in order, one message per
\* segment, the i-th labelled part i/total with total the number of
\* segments; and a handler that ends normally has sent every segment.
C12_SegmentsSentInOrder ==
    \A t \in Tasks :
        LET r == tasks[t]
            c == Content(r)
            segs == split_text(SourceText(r), MAX_MESSAGE_LENGTH)
            total == Len(segs)
        IN  c # <<>> =>
                /\ r.parts = segs
                /\ Len(c) <= total
                /\ total > 1 =>
                       \A i \in 1..Len(c) :
                           /\ c[i].part = i
                           /\ c[i].total = total
                           /\ c[i].body = segs[i]
                /\ EndedNormally(r) => Len(c) = total

\* C12 witness: a button handler ended normally after it sent a provider
\* output in three parts.
C12_Witness ==
    \E t \in Tasks :
        /\ IsButton(tasks[t])
        /\ EndedNormally(tasks[t])
        /\ Len(Content(tasks[t])) = 3
        /\ Content(tasks[t])[3].part = 3

\* C12 case reached: a voice/audio handler ended normally after it sent a
\* transcript in two parts.
C12_TranscriptPartsReached ==
    \E t \in Tasks :
        /\ IsMedia(tasks[t])
        /\ EndedNormally(tasks[t])
        /\ Len(Content(tasks[t])) = 2
        /\ Content(tasks[t])[2].total = 2

\* the id a button handler's callback data names
ButtonId(r) == CallbackMessageId(r.kind, r.data)

\* task t takes a step
Steps(t) == tasks'[t] # tasks[t]

Last(q) == q[Len(q)]

\* C13: a button handler calls the text generation provider only in the
\* step that found the transcript of the button's id in the store; a press
\* whose id is absent makes no provider call, and the handler then sends the
\* resend prompt and returns, with no error notice (the except clause is
\* entered only when the transport refuses the prompt itself).
C13_ProviderCalledOnlyWhenStored ==
    [][\A t \in Tasks :
          LET r == tasks[t]
              q == tasks'[t]
          IN  /\ (IsButton(r) /\ q.calls # r.calls) =>
                     Reads(t) /\ ButtonId(r) \in DOMAIN transcriptions
              /\ (Reads(t) /\ ButtonId(r) \notin DOMAIN transcriptions) =>
                     q.calls = <<>> /\ q.pc = "send_not_found"
              /\ (r.pc = "send_not_found" /\ Steps(t)) =>
                     /\ q.calls = <<>>
                     /\ \/ /\ q.pc = "done"
                           /\ Last(q.sent).what = "not_found"
                           /\ Sent(q, "error") = <<>>
                        \/ /\ q.pc = "report_error"
                           /\ q.sent = r.sent]_vars

\* C13 witness: a press for the id of a message whose transcription came
\* back blank ended normally with the resend prompt and no provider call.
C13_Witness ==
    \E t, u \in Tasks :
        /\ IsButton(tasks[t])
        /\ EndedNormally(tasks[t])
        /\ Sent(tasks[t], "not_found") # <<>>
        /\ tasks[t].calls = <<>>
        /\ IsMedia(tasks[u])
        /\ tasks[u].status_id = ButtonId(tasks[t])
        /\ Sent(tasks[u], "no_speech") # <<>>

\* C13 case reached: a press for a stored id called the provider.
C13_StoredReached ==
    \E t \in Tasks :
        /\ IsButton(tasks[t])
        /\ tasks[t].calls # <<>>
        /\ ButtonId(tasks[t]) \in DOMAIN transcriptions

\* C14: no step of a summarize or translate handler changes the store,
\* whether the action ends done or failed; the text a press is given is the
\* text the store holds for the id, and the store still holds it after the
\* press, so the next press for the same id is given the same text.
C14_ButtonsNeverModifyStore ==
    [][\A t \in Tasks :
          LET r == tasks[t]
              q == tasks'[t]
          IN  (IsButton(q) /\ Steps(t)) =>
                  /\ transcriptions' = transcriptions
                  /\ puts' = puts
                  /\ (Reads(t) /\ q.pc = "generating") =>
                         /\ ButtonId(r) \in DOMAIN transcriptions'
                         /\ q.text = transcriptions'[ButtonId(r)]]_vars

\* C14 witness: with a transcript in the store, a button action has failed
\* after its provider call and the handler has ended.
C14_Witness ==
    \E t \in Tasks :
        /\ IsButton(tasks[t])
        /\ tasks[t].pc = "done"
        /\ tasks[t].calls # <<>>
        /\ Sent(tasks[t], "error") # <<>>
        /\ ButtonId(tasks[t]) \in DOMAIN transcriptions
        /\ transcriptions[ButtonId(tasks[t])] = tasks[t].text

\* C14 case reached: with a transcript in the store, a button action is
\* done and the store holds the text the press was given.
C14_ActionDoneReached ==
    \E t \in Tasks :
        /\ IsButton(tasks[t])
        /\ EndedNormally(tasks[t])
        /\ Content(tasks[t]) # <<>>
        /\ transcriptions[ButtonId(tasks[t])] = tasks[t].text

\* one step of the handler invocation t
TaskNext(t) ==
    \/ ReceiveMedia(t) \/ ReceiveButton(t)
    \/ CheckSubscription(t) \/ SendSubscriptionRequired(t) \/ SendStatus(t)
    \/ Download(t) \/ TranscribeBegin(t) \/ TranscribeEnd(t)
    \/ SendFirst(t) \/ SendPart(t) \/ SendNoSpeech(t) \/ ReportError(t)
    \/ CallbackAnswer(t) \/ Lookup(t) \/ SendNotFound(t)
    \/ GenerateEnd(t) \/ SendResultPart(t)

\* the handler is inside a call to the transcription or the text generation provider
InProviderCall(r) == r.pc \in {"transcribing", "generating"}

\* the handler has not ended
Unfinished(r) == r.pc \notin {"done", "crashed"}

\* the event of task u can be handled now: a handler that has started can
\* take its next step, and for an event that has not arrived yet the next
\* handler can be started
CanGoOn(u) ==
    IF tasks[u].pc = "idle"
    THEN ENABLED (\E v \in Tasks : ReceiveMedia(v) \/ ReceiveButton(v))
    ELSE ENABLED TaskNext(u)

\* C15 as stated: while the provider call of one event is in progress, the
\* handler of every other event that has not ended can be started or can
\* take its next step.
C15_PendingCallNeverBlocks ==
    \A t, u \in Tasks :
        (t # u /\ InProviderCall(tasks[t]) /\ Unfinished(tasks[u])) => CanGoOn(u)

\* C15 cases reached: during a provider call another event waits to be
\* started, and another handler waits between two of its steps.
C15_StartBlockedReached ==
    \E t, u \in Tasks :
        t # u /\ InProviderCall(tasks[t]) /\ tasks[u].pc = "idle"
C15_ProgressBlockedReached ==
    \E t, u \in Tasks :
        t # u /\ InProviderCall(tasks[t]) /\ tasks[u].pc = "send_part"

\* the assignments to the store made by task t
PutsBy(t) == SelectSeq(puts, LAMBDA p : p.task = t)

\* C16: when the provider call of a handler has failed, the handler is in
\* its except clause or has ended; it has stored nothing and sent no
\* transcript, summary or translation; when it has ended after the notice
\* was delivered, the failure notice is the last thing it sent; it no longer
\* holds the event loop, and every other event that has not ended can be
\* started or go on (at once, unless another handler is inside a provider
\* call of its own).
C16_ProviderFailureDiscardsAttempt ==
    \A t \in Tasks :
        LET r == tasks[t]
        IN  r.provider = "failed" =>
                /\ r.pc \in {"report_error", "done", "crashed"}
                /\ PutsBy(t) = <<>>
                /\ Content(r) = <<>>
                /\ r.pc = "done" => Last(r.sent).what = "error"
                /\ r.pc = "crashed" => Sent(r, "error") = <<>>
                /\ busy # t
                /\ \A u \in Tasks \ {t} :
                       (Unfinished(tasks[u]) /\ busy \in {0, u}) => CanGoOn(u)

\* C16 witness: the transcription provider failed for one message, its
\* handler ended with the failure notice, and a later message is being
\* answered with its transcript.
C16_Witness ==
    \E t, u \in Tasks :
        /\ t < u
        /\ IsMedia(tasks[t])
        /\ tasks[t].provider = "failed"
        /\ tasks[t].pc = "done"
        /\ Sent(tasks[t], "error") # <<>>
        /\ tasks[u].pc = "send_part"

\* C16 case reached: the text generation provider failed for a press whose
\* transcript stays in the store, and the handler ended with the notice.
C16_GenerationFailureReached ==
    \E t \in Tasks :
        /\ IsButton(tasks[t])
        /\ tasks[t].provider = "failed"
        /\ tasks[t].pc = "done"
        /\ Sent(tasks[t], "error") # <<>>
        /\ ButtonId(tasks[t]) \in DOMAIN transcriptions

\* the transcription provider returned a text that is empty or whitespace only
BlankResult(r) ==
    /\ IsMedia(r)
    /\ r.provider = "returned"
    /\ \A i \in 1..Len(r.result) : IsSpace(r.result[i])

\* the messages of a task that show buttons
WithButtons(r) == SelectSeq(r.sent, LAMBDA m : m.keyboard # <<>>)

\* C17: when the transcription provider has returned a blank text, the
\* handler has stored nothing, has sent no transcript and no message with
\* buttons, and goes on to the "no speech recognized" message: a handler
\* that ended normally sent it last, and the error notice is sent only when
\* the transport refused that message.
C17_BlankTextIsNoSpeech ==
    \A t \in Tasks :
        LET r == tasks[t]
        IN  BlankResult(r) =>
                /\ r.pc \in {"send_no_speech", "report_error", "done", "crashed"}
                /\ PutsBy(t) = <<>>
                /\ Content(r) = <<>>
                /\ WithButtons(r) = <<>>
                /\ EndedNormally(r) => Last(r.sent).what = "no_speech"
                /\ Sent(r, "error") # <<>> => Sent(r, "no_speech") = <<>>

\* C17 witness: a whitespace-only transcription ended in the "no speech
\* recognized" message, edited into the status message.
C17_Witness ==
    \E t \in Tasks :
        /\ BlankResult(tasks[t])
        /\ tasks[t].result = <<SP>>
        /\ EndedNormally(tasks[t])
        /\ Last(tasks[t].sent).what = "no_speech"
        /\ Last(tasks[t].sent).id = tasks[t].status_id

\* C17 case reached: the same for the empty transcription.
C17_EmptyReached ==
    \E t \in Tasks :
        /\ BlankResult(tasks[t])
        /\ tasks[t].result = <<>>
        /\ EndedNormally(tasks[t])

\* C19 as stated: a handler has made a transcription, summarize or translate
\* provider call only if the subscription check passed while that same
\* event was handled.
C19_NoProviderCallWithoutSubscription ==
    \A t \in Tasks : tasks[t].calls # <<>> => tasks[t].sub = "passed"

\* C19 on the voice/audio handlers alone: they call the transcription
\* provider only after their subscription check passed.
C19_TranscriptionGated ==
    \A t \in Tasks :
        (IsMedia(tasks[t]) /\ tasks[t].calls # <<>>) => tasks[t].sub = "passed"

\* C19 cases reached: a voice/audio event was refused for a failed check,
\* and a button handler is inside its provider call.
C19_DeniedReached ==
    \E t \in Tasks :
        /\ tasks[t].sub = "denied" /\ tasks[t].pc = "done" /\ tasks[t].calls = <<>>
C19_ButtonCallReached ==
    \E t \in Tasks : IsButton(tasks[t]) /\ tasks[t].pc = "generating"

\* the ids encoded in the buttons of a message
ButtonIds(m) ==
    LET b == Buttons(m.keyboard)
    IN  {CallbackMessageId(CallbackKind(b[i].callback_data), b[i].callback_data) :
            i \in 1..Len(b)}

\* what the voice/audio handlers do on their own for the buttons: at most one
\* message of a transcription carries them, it is the last transcript message
\* (the single one or the last part) of a handler that ended normally, the
\* handler stored the full transcript before, and the buttons encode the key
\* it stored it under
ButtonsCarryStoredKey(t) ==
    LET r == tasks[t]
        w == WithButtons(r)
    IN  /\ Len(w) <= 1
        /\ (IsMedia(r) /\ EndedNormally(r) /\ Content(r) # <<>>) =>
               /\ Len(w) = 1
               /\ Last(Content(r)).keyboard # <<>>
        /\ w # <<>> =>
               /\ PutsBy(t) = <<[id |-> r.status_id, text |-> r.text, task |-> t]>>
               /\ ButtonIds(w[1]) = {r.status_id}

\* C21 as stated: the transcript is stored before a message with buttons is
\* sent, exactly one message per transcription carries the buttons, the
\* buttons encode the key the full transcript was stored under, and so a
\* press of any button that was shown finds its transcript in the store.
C21_ShownButtonFindsTranscript ==
    \A t \in Tasks :
        /\ ButtonsCarryStoredKey(t)
        /\ WithButtons(tasks[t]) # <<>> =>
               \A id \in ButtonIds(WithButtons(tasks[t])[1]) :
                   Get(transcriptions, id) = <<tasks[t].text>>

\* C21 without its conclusion: the part that rests on the voice/audio
\* handlers alone.
C21_ButtonsCarryStoredKey == \A t \in Tasks : ButtonsCarryStoredKey(t)

\* C21 cases reached: the buttons went out on the last part of a two-part
\* transcript, and the buttons of one chat's transcript are shown while
\* the store holds another chat's transcript under their id.
C21_LastPartButtonsReached ==
    \E t \in Tasks :
        /\ IsMedia(tasks[t]) /\ EndedNormally(tasks[t])
        /\ Len(Content(tasks[t])) = 2
        /\ Last(Content(tasks[t])).keyboard # <<>>
        /\ Content(tasks[t])[1].keyboard = <<>>
C21_OtherChatOverwroteReached ==
    \E t, u \in Tasks :
        /\ WithButtons(tasks[t]) # <<>>
        /\ tasks[u].chat # tasks[t].chat
        /\ tasks[u].status_id = tasks[t].status_id
        /\ Get(transcriptions, tasks[t].status_id) = <<tasks[u].text>>
        /\ tasks[u].text # tasks[t].text

====
